---- MODULE Spec2Model ----
(***************************************************************************)
(* DynamicQuantizeLinear<uint8_t>::Compute                                 *)
(* (onnxruntime/core/providers/cpu/tensor/dynamicquantizelinear.cc).       *)
(*                                                                         *)
(* One invocation of Compute is modelled as a state machine: the input     *)
(* check, the three output allocations, the derivation of scale and        *)
(* zero-point, the parallel dispatch of MlasQuantizeLinear over contiguous *)
(* sub-ranges and the return.                                              *)
(*                                                                         *)
(* Floats are modelled as IEEE-754 values over exact rationals: a finite   *)
(* value is a normalised fraction n/d, and +Inf, -Inf and NaN are values   *)
(* of their own with the IEEE rules for arithmetic and comparison.         *)
(* Rounding error, overflow and underflow of binary32 are not modelled.    *)
(***************************************************************************)
EXTENDS Integers, Sequences, FiniteSets

(***************************************************************************)
(* Bounds of the model.                                                    *)
(***************************************************************************)
\* longest input buffer drawn freely over Values
MaxLen == 2
\* largest number of extra worker threads of the operator thread pool
MaxWorkers == 2

(***************************************************************************)
(* IEEE-754 values.                                                        *)
(***************************************************************************)
Abs(i) == IF i < 0 THEN 0 - i ELSE i

RECURSIVE Gcd(_, _)
Gcd(a, b) == IF b = 0 THEN a ELSE Gcd(b, a % b)

\* the finite value n/d (d # 0), normalised
Frac(n, d) ==
    LET s == IF d < 0 THEN 0 - 1 ELSE 1
        g == Gcd(Abs(n), Abs(d))
    IN  [k |-> "fin", n |-> (s * n) \div g, d |-> (s * d) \div g]

Fin(i) == [k |-> "fin", n |-> i, d |-> 1]
Zero == Fin(0)
PInf == [k |-> "inf", n |-> 1, d |-> 1]
NInf == [k |-> "inf", n |-> 0 - 1, d |-> 1]
NaN == [k |-> "nan", n |-> 0, d |-> 1]

IsNaN(a) == a.k = "nan"
IsInf(a) == a.k = "inf"
IsFinite(a) == a.k = "fin"
Inf(s) == IF s < 0 THEN NInf ELSE PInf

\* a < b (false when either is NaN)
FLess(a, b) ==
    IF IsNaN(a) \/ IsNaN(b) THEN FALSE
    ELSE IF IsInf(a) THEN a.n < 0 /\ ~(IsInf(b) /\ b.n < 0)
    ELSE IF IsInf(b) THEN b.n > 0
    ELSE a.n * b.d < b.n * a.d

FNeg(a) == IF IsNaN(a) THEN NaN ELSE [a EXCEPT !.n = 0 - a.n]

FAdd(a, b) ==
    IF IsNaN(a) \/ IsNaN(b) THEN NaN
    ELSE IF IsInf(a) /\ IsInf(b) THEN (IF a.n = b.n THEN a ELSE NaN)
    ELSE IF IsInf(a) THEN a
    ELSE IF IsInf(b) THEN b
    ELSE Frac(a.n * b.d + b.n * a.d, a.d * b.d)

FSub(a, b) == FAdd(a, FNeg(b))

\* a / b: 0/0 and Inf/Inf are NaN, x/0 is an infinity, x/Inf is 0
FDiv(a, b) ==
    IF IsNaN(a) \/ IsNaN(b) THEN NaN
    ELSE IF IsInf(a) THEN (IF IsInf(b) THEN NaN
                           ELSE Inf(a.n * (IF b.n < 0 THEN 0 - 1 ELSE 1)))
    ELSE IF IsInf(b) THEN Zero
    ELSE IF b.n = 0 THEN (IF a.n = 0 THEN NaN ELSE Inf(a.n))
    ELSE Frac(a.n * b.d, a.d * b.n)

\* std::min(a, b) and std::max(a, b): the first argument unless the
\* comparison picks the second, so a NaN second argument is dropped
StdMin(a, b) == IF FLess(b, a) THEN b ELSE a
StdMax(a, b) == IF FLess(a, b) THEN b ELSE a

(***************************************************************************)
(* The numeric domain of the output type T = uint8_t.                      *)
(***************************************************************************)
\* std::numeric_limits<uint8_t>::max() and ::min()
TMax == 255
TMin == 0
\* the int8 minimum the code adjusts, and what it adjusts it to
Int8Min == -128
Int8AdjustedMin == -127

qmax == Fin(TMax)
qmin == IF TMin = Int8Min THEN Fin(Int8AdjustedMin) ELSE Fin(TMin)

(***************************************************************************)
(* The floating-point environment and the rounding of RoundHalfToEven.     *)
(***************************************************************************)
FE_TONEAREST == "FE_TONEAREST"
RoundingModes == {"FE_TONEAREST", "FE_UPWARD", "FE_DOWNWARD", "FE_TOWARDZERO"}

\* std::nearbyintf under the rounding mode `mode`
nearbyintf(v, mode) ==
    IF ~IsFinite(v) THEN v
    ELSE LET fl == v.n \div v.d
             rem == v.n - fl * v.d
         IN  IF rem = 0 THEN Fin(fl)
             ELSE CASE mode = "FE_TONEAREST" ->
                         IF 2 * rem < v.d THEN Fin(fl)
                         ELSE IF 2 * rem > v.d THEN Fin(fl + 1)
                         ELSE IF fl % 2 = 0 THEN Fin(fl) ELSE Fin(fl + 1)
                    [] mode = "FE_UPWARD" -> Fin(fl + 1)
                    [] mode = "FE_DOWNWARD" -> Fin(fl)
                    [] OTHER -> IF v.n < 0 THEN Fin(fl + 1) ELSE Fin(fl)

\* std::fesetround(mode): the new rounding mode of the calling thread
fesetround(fenv, mode) == mode

\* faulty variant: the rounding mode is left as the caller had it
RoundHalfToEven_NoSet(input, fenv) ==
    [fenv |-> fenv, result |-> nearbyintf(input, fenv)]

\* faulty variant: std::roundf, which rounds halfway cases away from zero
RoundHalfToEven_Away(input, fenv) ==
    [fenv |-> FE_TONEAREST,
     result |-> IF IsFinite(input) /\ 2 * (input.n - (input.n \div input.d) * input.d) = input.d
                THEN (IF input.n < 0 THEN Fin(input.n \div input.d)
                      ELSE Fin((input.n \div input.d) + 1))
                ELSE nearbyintf(input, FE_TONEAREST)]

\* RoundHalfToEven(input): the value returned and the rounding mode it leaves
RoundHalfToEven(input, fenv) ==
    LET e == fesetround(fenv, FE_TONEAREST)
    IN  [fenv |-> e, result |-> nearbyintf(input, e)]

\* static_cast<T>(f): truncation; a value T cannot hold is undefined
\* behaviour, which is kept apart from every value of T as -1
StaticCastT(f) ==
    IF ~IsFinite(f) THEN 0 - 1
    ELSE LET t == IF f.n < 0 THEN 0 - ((0 - f.n) \div f.d) ELSE f.n \div f.d
         IN  IF t >= TMin /\ t <= TMax THEN t ELSE 0 - 1

(***************************************************************************)
(* The range of the input (Eigen's minCoeff and maxCoeff).                 *)
(***************************************************************************)
HasNaN(v) == \E i \in 1..Len(v) : IsNaN(v[i])

\* MINPS / MAXPS: the second operand when either operand is a NaN
MinPs(a, b) == IF IsNaN(a) \/ IsNaN(b) THEN b ELSE StdMin(a, b)
MaxPs(a, b) == IF IsNaN(a) \/ IsNaN(b) THEN b ELSE StdMax(a, b)

RECURSIVE FoldStdMin(_, _, _)
FoldStdMin(v, i, acc) ==
    IF i > Len(v) THEN acc ELSE FoldStdMin(v, i + 1, StdMin(acc, v[i]))
RECURSIVE FoldStdMax(_, _, _)
FoldStdMax(v, i, acc) ==
    IF i > Len(v) THEN acc ELSE FoldStdMax(v, i + 1, StdMax(acc, v[i]))
RECURSIVE FoldMinPs(_, _, _)
FoldMinPs(v, i, acc) ==
    IF i > Len(v) THEN acc ELSE FoldMinPs(v, i + 1, MinPs(acc, v[i]))
RECURSIVE FoldMaxPs(_, _, _)
FoldMaxPs(v, i, acc) ==
    IF i > Len(v) THEN acc ELSE FoldMaxPs(v, i + 1, MaxPs(acc, v[i]))

\* the floats an element of the input, or a read outside it, may hold
Values == {Fin(-1), Zero, Fin(1), Fin(5), PInf, NInf, NaN}

\* the values minCoeff() may return: the least coefficient of the vector;
\* for a vector holding a NaN (where Eigen leaves the result undefined)
\* what a scalar, a packet or a NaN-propagating reduction returns; for an
\* empty vector (where Eigen asserts, and without assertions reads
\* outside the vector) any float
minCoeff(v) ==
    IF Len(v) = 0 THEN Values
    ELSE IF HasNaN(v)
    THEN {FoldStdMin(v, 2, v[1]), FoldMinPs(v, 2, v[1]), NaN}
    ELSE {FoldStdMin(v, 2, v[1])}

maxCoeff(v) ==
    IF Len(v) = 0 THEN Values
    ELSE IF HasNaN(v)
    THEN {FoldStdMax(v, 2, v[1]), FoldMaxPs(v, 2, v[1]), NaN}
    ELSE {FoldStdMax(v, 2, v[1])}

(***************************************************************************)
(* The derivation of scale and zero-point.                                 *)
(***************************************************************************)
\* faulty variant: the observed range is not widened to include zero
IncludeZeroMin_Skip(m) == m

\* min = std::min(min, 0.0f); max = std::max(max, 0.0f)
IncludeZeroMin(m) == StdMin(m, Zero)
IncludeZeroMax(m) == StdMax(m, Zero)

\* scale = (max - min) / (qmax - qmin)
ScaleOf(mx, mn) == FDiv(FSub(mx, mn), FSub(qmax, qmin))

\* initial_zero_point = qmin - min / scale
InitialZeroPoint(mn, s) == FSub(qmin, FDiv(mn, s))

\* faulty variant: no clamp
ClampZeroPoint_None(v) == v
\* faulty variant: the clamp with its bounds applied in the other order
ClampZeroPoint_Swapped(v) == StdMin(qmax, StdMax(qmin, v))

\* std::max(qmin, std::min(qmax, initial_zero_point))
ClampZeroPoint(v) == StdMax(qmin, StdMin(qmax, v))

(***************************************************************************)
(* MlasQuantizeLinear, one element: Output[n] from Input[n].               *)
(***************************************************************************)
MlasClamp(v) == StdMax(qmin, StdMin(qmax, v))

MlasQuantizeLinearElement(xv, Scale, ZeroPoint) ==
    StaticCastT(nearbyintf(MlasClamp(FAdd(FDiv(xv, Scale), Fin(ZeroPoint))),
                           FE_TONEAREST))

\* the whole buffer quantized by one call
MlasQuantizeLinear(Input, Scale, ZeroPoint) ==
    [n \in 1..Len(Input) |-> MlasQuantizeLinearElement(Input[n], Scale, ZeroPoint)]

(***************************************************************************)
(* The inputs of one invocation.                                           *)
(***************************************************************************)
\* every buffer over Values of at most MaxLen elements, the empty one
\* (a tensor with a dimension of size 0) included
Buffers == UNION {[1..l -> Values] : l \in 0..MaxLen}

\* the buffers of the specification's scenarios 1 and 2
Scenario1 == <<Zero, Fin(2), Fin(-1), Fin(1)>>
Scenario2 == <<Zero, Zero, Zero>>
Scenarios == {Scenario1, Scenario2}

Outputs == {"Y", "Y_scale", "Y_zero_point"}

VARIABLES
    x_ptr,        \* ctx->Input<Tensor>(0): "null" or "valid"
    x,            \* x_data[0 .. num_of_elements)
    fe_round,     \* the rounding mode of the calling thread
    workers,      \* extra worker threads of the operator thread pool
    pc,           \* the position of Compute
    status,       \* "running", "OK", or the failure the call ended with
    alloc,        \* the outputs ctx->Output has returned
    stored,       \* the scalar outputs written so far
    y_scale,      \* *output_scale
    y_zeropoint,  \* *output_zp
    output,       \* output[0 .. num_of_elements)
    wcount,       \* how many times each element of output was written
    used,         \* the (scale, zero_point) each element was quantized with
    min,          \* the locals of Compute
    max,
    scale,
    zero_point,
    tasks         \* the sub-range callbacks TryParallelFor has planned

vars == <<x_ptr, x, fe_round, workers, pc, status, alloc, stored, y_scale,
          y_zeropoint, output, wcount, used, min, max, scale, zero_point, tasks>>

num_of_elements == Len(x)

NoPair == [scale |-> Zero, zero_point |-> 0]

Init ==
    /\ \/ x_ptr = "null" /\ x = <<>>
       \/ x_ptr = "valid" /\ x \in Buffers \cup Scenarios
    /\ fe_round \in RoundingModes
    /\ workers \in 0..MaxWorkers
    /\ pc = "L33"
    /\ status = "running"
    /\ alloc = {}
    /\ stored = {}
    /\ y_scale = Zero
    /\ y_zeropoint = 0
    /\ output = <<>>
    /\ wcount = <<>>
    /\ used = <<>>
    /\ min = Zero
    /\ max = Zero
    /\ scale = Zero
    /\ zero_point = 0
    /\ tasks = <<>>

(***************************************************************************)
(* Lines 33-37: the input tensor is fetched and enforced to be present.    *)
(***************************************************************************)
\* faulty variant: the first output is requested before the input is enforced
CheckInput_AfterOutput ==
    /\ pc = "L33"
    /\ alloc' = alloc \cup {"Y"}
    /\ IF x_ptr = "null"
       THEN pc' = "failed" /\ status' = "null_input"
       ELSE pc' = "L39" /\ status' = status
    /\ UNCHANGED <<x_ptr, x, fe_round, workers, stored, y_scale, y_zeropoint,
                   output, wcount, used, min, max, scale, zero_point, tasks>>

CheckInput ==
    /\ pc = "L33"
    /\ IF x_ptr = "null"
       THEN pc' = "failed" /\ status' = "null_input"
       ELSE pc' = "L39" /\ status' = status
    /\ UNCHANGED <<x_ptr, x, fe_round, workers, alloc, stored, y_scale,
                   y_zeropoint, output, wcount, used, min, max, scale,
                   zero_point, tasks>>

(***************************************************************************)
(* Lines 39-42: the three outputs are requested, Y first.                  *)
(***************************************************************************)
AllocY ==
    /\ pc = "L39"
    /\ alloc' = alloc \cup {"Y"}
    /\ output' = [i \in 1..num_of_elements |-> 0]
    /\ wcount' = [i \in 1..num_of_elements |-> 0]
    /\ used' = [i \in 1..num_of_elements |-> NoPair]
    /\ pc' = "L41"
    /\ UNCHANGED <<x_ptr, x, fe_round, workers, status, stored, y_scale,
                   y_zeropoint, min, max, scale, zero_point, tasks>>

AllocYScale ==
    /\ pc = "L41"
    /\ alloc' = alloc \cup {"Y_scale"}
    /\ pc' = "L42"
    /\ UNCHANGED <<x_ptr, x, fe_round, workers, status, stored, y_scale,
                   y_zeropoint, output, wcount, used, min, max, scale,
                   zero_point, tasks>>

AllocYZeroPoint ==
    /\ pc = "L42"
    /\ alloc' = alloc \cup {"Y_zero_point"}
    /\ pc' = "L45"
    /\ UNCHANGED <<x_ptr, x, fe_round, workers, status, stored, y_scale,
                   y_zeropoint, output, wcount, used, min, max, scale,
                   zero_point, tasks>>

\* ctx->Output fails to provide the output requested at pc
OutputFail ==
    /\ pc \in {"L39", "L41", "L42"}
    /\ pc' = "failed"
    /\ status' = "output_failed"
    /\ UNCHANGED <<x_ptr, x, fe_round, workers, alloc, stored, y_scale,
                   y_zeropoint, output, wcount, used, min, max, scale,
                   zero_point, tasks>>

(***************************************************************************)
(* Lines 44-63: the range of the input, the scale, and its store.          *)
(***************************************************************************)
DeriveScale ==
    /\ pc = "L45"
    /\ \E mn \in minCoeff(x), mx \in maxCoeff(x) :
          /\ min' = IncludeZeroMin(mn)
          /\ max' = IncludeZeroMax(mx)
    /\ scale' = ScaleOf(max', min')
    /\ y_scale' = scale'
    /\ stored' = stored \cup {"Y_scale"}
    /\ pc' = "L65"
    /\ UNCHANGED <<x_ptr, x, fe_round, workers, status, alloc, y_zeropoint,
                   output, wcount, used, zero_point, tasks>>

\* with assertions compiled in, Eigen's reduction of an empty vector
\* aborts the process
EmptyRangeAbort ==
    /\ pc = "L45"
    /\ num_of_elements = 0
    /\ pc' = "failed"
    /\ status' = "aborted"
    /\ UNCHANGED <<x_ptr, x, fe_round, workers, alloc, stored, y_scale,
                   y_zeropoint, output, wcount, used, min, max, scale,
                   zero_point, tasks>>

(***************************************************************************)
(* Lines 65-68: the zero-point, and its store.                             *)
(***************************************************************************)
\* faulty variant: the store *output_zp = zero_point is missing
DeriveZeroPoint_NoStore ==
    /\ pc = "L65"
    /\ LET r == RoundHalfToEven(ClampZeroPoint(InitialZeroPoint(min, scale)), fe_round)
       IN  /\ zero_point' = StaticCastT(r.result)
           /\ fe_round' = r.fenv
    /\ pc' = "L71"
    /\ UNCHANGED <<x_ptr, x, workers, status, alloc, stored, y_scale,
                   y_zeropoint, output, wcount, used, min, max, scale, tasks>>

DeriveZeroPoint ==
    /\ pc = "L65"
    /\ LET r == RoundHalfToEven(ClampZeroPoint(InitialZeroPoint(min, scale)), fe_round)
       IN  /\ zero_point' = StaticCastT(r.result)
           /\ fe_round' = r.fenv
    /\ y_zeropoint' = zero_point'
    /\ stored' = stored \cup {"Y_zero_point"}
    /\ pc' = "L71"
    /\ UNCHANGED <<x_ptr, x, workers, status, alloc, y_scale, output, wcount,
                   used, min, max, scale, tasks>>

(***************************************************************************)
(* Lines 71-79: TryParallelFor over [0, num_of_elements).                  *)
(***************************************************************************)
RECURSIVE SortedSeq(_)
SortedSeq(S) ==
    IF S = {} THEN <<>>
    ELSE LET m == CHOOSE e \in S : \A f \in S : e <= f
         IN  <<m>> \o SortedSeq(S \ {m})

\* the callbacks of the partition of [0, n) cut at `cuts`
TasksOf(cuts, n) ==
    LET b == SortedSeq({0, n} \cup cuts)
    IN  [t \in 1..(Len(b) - 1) |->
            [begin |-> b[t], end |-> b[t + 1], pos |-> 0, st |-> "pending",
             io |-> {}]]

\* TryParallelFor picks a partition of [0, n) into contiguous sub-ranges
Dispatch ==
    /\ pc = "L71"
    /\ \E cuts \in SUBSET (1..(num_of_elements - 1)) :
          tasks' = TasksOf(cuts, num_of_elements)
    /\ pc' = "parallel"
    /\ UNCHANGED <<x_ptr, x, fe_round, workers, status, alloc, stored, y_scale,
                   y_zeropoint, output, wcount, used, min, max, scale,
                   zero_point>>

Running == {t \in DOMAIN tasks : tasks[t].st = "running"}

\* a thread is free to take up callback t: the pool's workers and the
\* calling thread run at most workers + 1 callbacks at a time
CanStartTask(t) ==
    /\ pc = "parallel"
    /\ tasks[t].st = "pending"
    /\ Cardinality(Running) < workers + 1

\* a thread of the pool, or the calling thread, takes up a callback
StartTask(t) ==
    /\ CanStartTask(t)
    /\ tasks' = [tasks EXCEPT ![t].st = "running"]
    /\ UNCHANGED <<x_ptr, x, fe_round, workers, pc, status, alloc, stored,
                   y_scale, y_zeropoint, output, wcount, used, min, max, scale,
                   zero_point>>

\* faulty variants: the lambda passes the buffer's base, not base + begin
LambdaInput_Base(begin) == 0
LambdaOutput_Base(begin) == 0

\* the lambda's arguments to MlasQuantizeLinear, as offsets and a count:
\* x_data + begin, output + begin, end - begin
LambdaInput(begin) == begin
LambdaOutput(begin) == begin
LambdaCount(begin, end) == end - begin

\* callback t is running and has elements left
CanTaskStep(t) ==
    /\ pc = "parallel"
    /\ tasks[t].st = "running"
    /\ tasks[t].pos < LambdaCount(tasks[t].begin, tasks[t].end)

\* one element of callback t: Output[pos] from Input[pos]
TaskStep(t) ==
    /\ CanTaskStep(t)
    /\ LET tk == tasks[t]
           i == LambdaInput(tk.begin) + tk.pos
           o == LambdaOutput(tk.begin) + tk.pos
           N == LambdaCount(tk.begin, tk.end)
       IN  /\ output' = [output EXCEPT
                            ![o + 1] = MlasQuantizeLinearElement(x[i + 1], scale, zero_point)]
           /\ wcount' = [wcount EXCEPT ![o + 1] = @ + 1]
           /\ used' = [used EXCEPT
                          ![o + 1] = [scale |-> scale, zero_point |-> zero_point]]
           /\ tasks' = [tasks EXCEPT
                           ![t] = [tk EXCEPT
                                      !.pos = tk.pos + 1,
                                      !.st = IF tk.pos + 1 = N THEN "done" ELSE "running",
                                      !.io = @ \cup {<<i, o>>}]]
    /\ UNCHANGED <<x_ptr, x, fe_round, workers, pc, status, alloc, stored,
                   y_scale, y_zeropoint, min, max, scale, zero_point>>

\* the dispatch fails: the failure leaves Compute as an exception
ParallelForFail ==
    /\ pc = "parallel"
    /\ pc' = "failed"
    /\ status' = "dispatch_failed"
    /\ UNCHANGED <<x_ptr, x, fe_round, workers, alloc, stored, y_scale,
                   y_zeropoint, output, wcount, used, min, max, scale,
                   zero_point, tasks>>

AllTasksDone == \A t \in DOMAIN tasks : tasks[t].st = "done"

CanJoin == pc = "parallel" /\ AllTasksDone

\* TryParallelFor returns once every callback has run to its end
Join ==
    /\ CanJoin
    /\ pc' = "L81"
    /\ UNCHANGED <<x_ptr, x, fe_round, workers, status, alloc, stored, y_scale,
                   y_zeropoint, output, wcount, used, min, max, scale,
                   zero_point, tasks>>

(***************************************************************************)
(* Line 81: return Status::OK().                                           *)
(***************************************************************************)
\* faulty variant: Compute returns without waiting for TryParallelFor
ReturnOK_NoJoin ==
    /\ pc \in {"parallel", "L81"}
    /\ pc' = "done"
    /\ status' = "OK"
    /\ UNCHANGED <<x_ptr, x, fe_round, workers, alloc, stored, y_scale,
                   y_zeropoint, output, wcount, used, min, max, scale,
                   zero_point, tasks>>

ReturnOK ==
    /\ pc = "L81"
    /\ pc' = "done"
    /\ status' = "OK"
    /\ UNCHANGED <<x_ptr, x, fe_round, workers, alloc, stored, y_scale,
                   y_zeropoint, output, wcount, used, min, max, scale,
                   zero_point, tasks>>

Progress ==
    \/ CheckInput
    \/ AllocY
    \/ AllocYScale
    \/ AllocYZeroPoint
    \/ DeriveScale
    \/ DeriveZeroPoint
    \/ Dispatch
    \/ \E t \in DOMAIN tasks : StartTask(t)
    \/ \E t \in DOMAIN tasks : TaskStep(t)
    \/ Join
    \/ ReturnOK

Next ==
    \/ Progress
    \/ OutputFail
    \/ EmptyRangeAbort
    \/ ParallelForFail

Spec == Init /\ [][Next]_vars

(***************************************************************************)
(* Properties.                                                             *)
(***************************************************************************)
\* IEEE-754 comparison, absolute value and product, for the statements
\* about dequantized values
FLeq(a, b) == ~IsNaN(a) /\ ~IsNaN(b) /\ ~FLess(b, a)
FAbs(a) == IF IsNaN(a) THEN NaN ELSE [a EXCEPT !.n = Abs(a.n)]
Sign(i) == IF i < 0 THEN 0 - 1 ELSE IF i > 0 THEN 1 ELSE 0
FMul(a, b) ==
    IF IsNaN(a) \/ IsNaN(b) THEN NaN
    ELSE IF IsInf(a) \/ IsInf(b)
         THEN (IF a.n = 0 \/ b.n = 0 THEN NaN ELSE Inf(Sign(a.n) * Sign(b.n)))
    ELSE Frac(a.n * b.n, a.d * b.d)

Written(i) == wcount[i] > 0
AllWritten == \A i \in DOMAIN output : wcount[i] > 0
AllFinite == \A j \in DOMAIN x : IsFinite(x[j])
FullyPopulated ==
    /\ alloc = Outputs
    /\ stored = {"Y_scale", "Y_zero_point"}
    /\ Len(output) = num_of_elements
    /\ AllWritten

\* what Compute produces when the whole of [0, n) is one sub-range, for
\* the coefficients mn and mx that minCoeff and maxCoeff returned
SingleRange(v, mn, mx) ==
    LET lo == IncludeZeroMin(mn)
        hi == IncludeZeroMax(mx)
        s == ScaleOf(hi, lo)
        z == StaticCastT(RoundHalfToEven(ClampZeroPoint(InitialZeroPoint(lo, s)),
                                         FE_TONEAREST).result)
    IN  <<MlasQuantizeLinear(v, s, z), s, z>>

\* C1: whatever the partition of [0, n) and the interleaving of the
\* callbacks, every element written so far is the element a single
\* sub-range [0, n) writes, and the (Y, Y_scale, Y_zero_point) Compute
\* returns is the result of a run with the single sub-range [0, n).
C1_PartitionIndependent ==
    /\ \A i \in DOMAIN output :
          Written(i) => output[i] = MlasQuantizeLinear(x, y_scale, y_zeropoint)[i]
    /\ status = "OK" =>
          /\ AllWritten
          /\ \E mn \in minCoeff(x), mx \in maxCoeff(x) :
                <<output, y_scale, y_zeropoint>> = SingleRange(x, mn, mx)

\* a run over four sub-ranges, the second finished before the first began
C1_Witness ==
    /\ pc = "parallel"
    /\ Len(tasks) = 4
    /\ tasks[1].st = "pending"
    /\ tasks[2].st = "done"
    /\ tasks[3].st = "running"

\* C2: a callback for (begin, end) reads input index i and writes output
\* index i only for begin <= i < end, always the same index on both sides;
\* no output element is written by two callbacks or twice, and when
\* Compute returns every output element has been written exactly once.
C2_DisjointSlices ==
    /\ \A t \in DOMAIN tasks : \A p \in tasks[t].io :
          p[1] = p[2] /\ tasks[t].begin <= p[1] /\ p[1] < tasks[t].end
    /\ \A t, u \in DOMAIN tasks :
          t # u => {p[2] : p \in tasks[t].io} \cap {p[2] : p \in tasks[u].io} = {}
    /\ \A i \in DOMAIN output : wcount[i] <= 1
    /\ status = "OK" => \A i \in DOMAIN output : wcount[i] = 1

\* Compute has returned from a run over at least two sub-ranges
C2_Witness ==
    /\ status = "OK"
    /\ Len(tasks) >= 2
    /\ \A t \in DOMAIN tasks : tasks[t].io # {}

C3_Order ==
    /\ "Y_zero_point" \in stored => "Y_scale" \in stored
    /\ \A i \in DOMAIN output :
          Written(i) =>
             /\ stored = {"Y_scale", "Y_zero_point"}
             /\ used[i] = [scale |-> y_scale, zero_point |-> y_zeropoint]

C3_Frozen ==
    /\ "Y_scale" \in stored => y_scale' = y_scale /\ scale' = scale
    /\ "Y_zero_point" \in stored =>
          y_zeropoint' = y_zeropoint /\ zero_point' = zero_point

\* C3: the scale is stored before the zero-point and both before the first
\* output element is written; once stored neither changes; every output
\* element was quantized with the stored (scale, zero_point).
C3_ParametersFirst == []C3_Order /\ [][C3_Frozen]_vars

\* two callbacks have both written, with the parameters stored
C3_Witness ==
    /\ Len(tasks) >= 2
    /\ Written(1)
    /\ Written(Len(output))
    /\ stored = {"Y_scale", "Y_zero_point"}

Returned == pc \in {"done", "failed"}

\* the straight-line part of Compute, where the calling thread's next
\* statement can always run
StraightLine == {"L33", "L39", "L41", "L42", "L45", "L65", "L71", "L81"}

\* some step of Compute, of a callback or of the join can be taken
CanProgress ==
    \/ pc \in StraightLine
    \/ \E t \in DOMAIN tasks : CanStartTask(t)
    \/ \E t \in DOMAIN tasks : CanTaskStep(t)
    \/ CanJoin

RECURSIVE WorkLeft(_)
\* the steps the callbacks t..Len(tasks) still have to take
WorkLeft(t) ==
    IF t > Len(tasks) THEN 0
    ELSE (IF tasks[t].st = "pending" THEN 1 ELSE 0)
         + (tasks[t].end - tasks[t].begin - tasks[t].pos) + WorkLeft(t + 1)

\* an upper bound on the steps left before Compute has returned
StepsLeft ==
    CASE pc = "L33" -> 9 + 2 * num_of_elements
      [] pc = "L39" -> 8 + 2 * num_of_elements
      [] pc = "L41" -> 7 + 2 * num_of_elements
      [] pc = "L42" -> 6 + 2 * num_of_elements
      [] pc = "L45" -> 5 + 2 * num_of_elements
      [] pc = "L65" -> 4 + 2 * num_of_elements
      [] pc = "L71" -> 3 + 2 * num_of_elements
      [] pc = "parallel" -> 2 + WorkLeft(1)
      [] pc = "L81" -> 1
      [] OTHER -> 0

\* C4: Compute returns Status::OK only when every callback TryParallelFor
\* dispatched has completed, whatever the number of worker threads; it
\* always eventually returns under a fair dispatcher: until it has
\* returned some step can be taken, and every step brings the return
\* nearer.
C4_ReturnsAfterJoin ==
    /\ [](status = "OK" =>
            /\ AllTasksDone
            /\ \A i \in 0..(num_of_elements - 1) :
                  \E t \in DOMAIN tasks : tasks[t].begin <= i /\ i < tasks[t].end)
    /\ [](~Returned => CanProgress)
    /\ [][StepsLeft' < StepsLeft]_vars

\* a return from a run of several sub-ranges with no extra worker
C4_Witness ==
    /\ status = "OK"
    /\ workers = 0
    /\ Len(tasks) >= 2

\* C5 as stated: Compute either populates all three outputs or fails
\* before any of them has been allocated or written.
C5_AllOrNothing ==
    /\ status = "OK" => FullyPopulated
    /\ status \notin {"running", "OK"} =>
          alloc = {} /\ stored = {} /\ \A i \in DOMAIN output : ~Written(i)

\* C5 as amended: Compute returns Status::OK only with all three outputs
\* populated; a null input fails before any output is allocated or
\* written; a failing ctx->Output fails before any output is written,
\* though after the outputs requested earlier were allocated; a failing
\* dispatch fails with all three allocated and both scalars written; an
\* empty input may abort in the range scan, with all three allocated and
\* none written.
C5_NoPartialOnReturn ==
    /\ status = "OK" => FullyPopulated
    /\ status = "null_input" =>
          alloc = {} /\ stored = {} /\ output = <<>>
    /\ status = "output_failed" =>
          stored = {} /\ \A i \in DOMAIN output : ~Written(i)
    /\ status = "dispatch_failed" =>
          alloc = Outputs /\ stored = {"Y_scale", "Y_zero_point"}
    /\ status = "aborted" =>
          num_of_elements = 0 /\ alloc = Outputs /\ stored = {}

\* the call has failed on a null input
C5_Witness ==
    /\ status = "null_input"
    /\ pc = "failed"

\* C6: the zero-point Compute writes is a value of 0..255, for every
\* input, the all-zero buffer (scale = 0) included.
C6_ZeroPointInRange ==
    "Y_zero_point" \in stored => y_zeropoint >= 0 /\ y_zeropoint <= 255

\* the zero-point of an all-zero buffer has been stored
C6_Witness ==
    /\ "Y_zero_point" \in stored
    /\ y_scale = Zero
    /\ \A j \in DOMAIN x : x[j] = Zero

LeastWithZero(v) ==
    CHOOSE m \in {v[j] : j \in DOMAIN v} \cup {Zero} :
       \A j \in DOMAIN v : FLeq(m, v[j]) /\ FLeq(m, Zero)
GreatestWithZero(v) ==
    CHOOSE m \in {v[j] : j \in DOMAIN v} \cup {Zero} :
       \A j \in DOMAIN v : FLeq(v[j], m) /\ FLeq(Zero, m)

\* z is the integer nearest to the finite value v, the even one of the two
\* when v lies halfway between them
NearestEven(z, v) ==
    /\ 2 * Abs(z * v.d - v.n) <= v.d
    /\ 2 * Abs(z * v.d - v.n) = v.d => z % 2 = 0

\* C8: for a buffer of finite elements that are not all zero, the stored
\* zero-point is the integer nearest to clamp(0 - min / scale, 0, 255),
\* the even one on a tie, with min = min(min of input, 0),
\* max = max(max of input, 0) and scale = (max - min) / 255; the buffer
\* [0.0, 2.0, -1.0, 1.0] gives zero-point 85 and Y = [85, 255, 0, 170].
C8_ZeroPointFormula ==
    /\ "Y_zero_point" \in stored /\ AllFinite /\ (\E j \in DOMAIN x : x[j] # Zero) =>
          LET mn == LeastWithZero(x)
              mx == GreatestWithZero(x)
              izp == Frac(0 - (255 * mn.n * (mx.d * mn.d)),
                          mn.d * (mx.n * mn.d - mn.n * mx.d))
              v == IF izp.n < 0 THEN Zero
                   ELSE IF izp.n > 255 * izp.d THEN Fin(255) ELSE izp
          IN  NearestEven(y_zeropoint, v)
    /\ "Y_zero_point" \in stored /\ x = Scenario1 => y_zeropoint = 85
    /\ status = "OK" /\ x = Scenario1 => output = <<85, 255, 0, 170>>

\* min = -1 and max = 5: the clamped value 42.5 was rounded to 42
C8_Witness ==
    /\ "Y_zero_point" \in stored
    /\ min = Fin(-1)
    /\ max = Fin(5)
    /\ y_zeropoint = 42

\* (q - Y_zero_point) * Y_scale
Dequantize(q) == FMul(Fin(q - y_zeropoint), y_scale)

RoundTripBound(i) ==
    FLeq(FAbs(FSub(Dequantize(output[i]), x[i])), y_scale)

\* C9 as stated: for every input buffer and every element x of it, with q
\* the output element for x, |dequantize(q) - x| <= Y_scale.
C9_RoundTrip ==
    \A i \in DOMAIN output : Written(i) => RoundTripBound(i)

\* C9 as amended: the bound holds for every element of every input buffer
\* whose elements are all finite.
C9_RoundTripFinite ==
    AllFinite => \A i \in DOMAIN output : Written(i) => RoundTripBound(i)

\* a finite buffer quantized with a rounding error that is not zero
C9_Witness ==
    /\ status = "OK"
    /\ AllFinite
    /\ \E i \in DOMAIN output : Dequantize(output[i]) # x[i]

\* a step of the derivation: lines 44-63 or lines 65-68 run to their end
Deriving == pc \in {"L45", "L65"} /\ pc' \in {"L65", "L71"}

DerivationFrame ==
    /\ x' = x
    /\ x_ptr' = x_ptr
    /\ workers' = workers
    /\ status' = status
    /\ alloc' = alloc
    /\ output' = output
    /\ wcount' = wcount
    /\ used' = used
    /\ tasks' = tasks
    /\ stored' \subseteq stored \cup {"Y_scale", "Y_zero_point"}

\* C10 as stated: the derivation of (scale, zero_point) changes nothing but
\* the two scalar outputs; the input buffer and the floating-point
\* rounding mode are after it what they were before.
C10_NoSideEffects ==
    [][Deriving => DerivationFrame /\ fe_round' = fe_round]_vars

\* C10 as amended: the derivation changes nothing but the two scalar
\* outputs and the rounding mode of the calling thread, which deriving the
\* zero-point leaves at round-to-nearest; the input buffer is unchanged.
C10_OnlyRoundingMode ==
    [][Deriving => /\ DerivationFrame
                   /\ pc = "L45" => fe_round' = fe_round
                   /\ pc = "L65" => fe_round' = FE_TONEAREST]_vars

\* both scalars have been derived and stored
C10_Witness ==
    /\ pc = "L71"
    /\ stored = {"Y_scale", "Y_zero_point"}
    /\ fe_round = FE_TONEAREST

====
